---- MODULE Spec2Model ----
(***************************************************************************)
(* Model of Csv2Json (convert and the PEG.js generated csvParser).         *)
(*                                                                         *)
(* A JavaScript string is a sequence of one-character strings, position p  *)
(* of the code (0-based) is element p+1 of the sequence.  One call of      *)
(* convert(csv, options) is one behaviour: Init chooses the arguments, the *)
(* actions follow the code of convert and of the parse functions, one      *)
(* action per match attempt or loop iteration of the parser.               *)
(***************************************************************************)
EXTENDS Integers, Sequences, FiniteSets, TLC

(***************************************************************************)
(* Bounds of the model.                                                    *)
(***************************************************************************)
\* longest free text over the small alphabets
MaxLen == 4
\* longest cell text of the number-coercion inputs
MaxCell == 3
\* most header columns of the generated tables
MaxCols == 3
\* most data rows of the generated tables
MaxRows == 2

(***************************************************************************)
(* Characters and strings.                                                 *)
(***************************************************************************)
COMMA == ","
SEMI  == ";"
TAB   == "\t"
QUOTE == "\""
LF    == "\n"
CR    == "\r"
PIPE  == "|"
SPACE == " "

\* the value JavaScript calls undefined, where a cell or a key is expected
Undefined == <<"undefined">>

\* the null a parse function returns on failure
Null == <<"null">>

Max(x, y) == IF x > y THEN x ELSE y

Range(s) == {s[i] : i \in DOMAIN s}

Front(s) == SubSeq(s, 1, Len(s) - 1)

\* all sequences over alphabet of length at most n
RECURSIVE SeqsUpTo(_, _)
SeqsUpTo(alphabet, n) ==
  IF n = 0 THEN {<<>>}
  ELSE LET shorter == SeqsUpTo(alphabet, n - 1)
       IN  shorter \cup {Append(s, c) : s \in {t \in shorter : Len(t) = n - 1}, c \in alphabet}

\* Array.prototype.join of an array of strings
RECURSIVE Join(_, _)
Join(parts, glue) ==
  IF Len(parts) = 0 THEN <<>>
  ELSE IF Len(parts) = 1 THEN parts[1]
  ELSE parts[1] \o glue \o Join(Tail(parts), glue)

DigitChars == <<"0", "1", "2", "3", "4", "5", "6", "7", "8", "9">>

IsDigit(c) == \E d \in DOMAIN DigitChars : DigitChars[d] = c

DigitVal(c) == (CHOOSE d \in DOMAIN DigitChars : DigitChars[d] = c) - 1

\* Number to string of a non-negative integer, as '__' + counts[key] does
RECURSIVE ToStr(_)
ToStr(n) ==
  IF n < 10 THEN <<DigitChars[n + 1]>>
  ELSE Append(ToStr(n \div 10), DigitChars[(n % 10) + 1])

(***************************************************************************)
(* convert's constants.                                                    *)
(***************************************************************************)
errorDetectingSeparator == "We could not detect the separator."
errorNotWellFormed == "CSV is not well formed"
errorEmpty == "Empty CSV. Please provide something."
errorEmptyHeader == "Could not detect header. Ensure first row contains your column headers."

separators == <<COMMA, SEMI, TAB>>

\* pegjsSeparatorNames[sep]; a key it does not hold gives undefined, and
\* csvParser.parse replaces an undefined start rule by "comma"
pegjsSeparatorNames(sep) ==
  IF sep = COMMA THEN "comma"
  ELSE IF sep = SEMI THEN "semicolon"
  ELSE IF sep = TAB THEN "tab"
  ELSE "undefined"

(***************************************************************************)
(* detectSeparator.                                                        *)
(***************************************************************************)
\* (csv.match(new RegExp(sep, 'g')) || []).length
RECURSIVE matchCount(_, _)
matchCount(csv, sep) ==
  IF Len(csv) = 0 THEN 0
  ELSE (IF Head(csv) = sep THEN 1 ELSE 0) + matchCount(Tail(csv), sep)

\* one iteration of the forEach: sepMax is "" while it is undefined
detectStepTiesToLater(csv, sepMax, sep) ==
  IF sepMax = "" \/ matchCount(csv, sep) >= matchCount(csv, sepMax) THEN sep ELSE sepMax

detectStep(csv, sepMax, sep) ==
  IF sepMax = "" \/ matchCount(csv, sep) > matchCount(csv, sepMax) THEN sep ELSE sepMax

RECURSIVE detectFrom(_, _, _)
detectFrom(csv, i, sepMax) ==
  IF i > Len(separators) THEN sepMax
  ELSE detectFrom(csv, i + 1, detectStep(csv, sepMax, separators[i]))

detectSeparator(csv) == detectFrom(csv, 1, "")

(***************************************************************************)
(* zip: the pivot convert applies when options.transpose is set.          *)
(***************************************************************************)
\* args.reduce(function(a,b) { return a.length>b.length ? a : b; }, [])
RECURSIVE zipLongest(_, _, _)
zipLongest(args, i, acc) ==
  IF i > Len(args) THEN acc
  ELSE zipLongest(args, i + 1, IF Len(acc) > Len(args[i]) THEN acc ELSE args[i])

\* the element after the one asked for
elementAtNext(array, i) == IF i + 1 \in DOMAIN array THEN array[i + 1] ELSE Undefined

\* array[i] of a JavaScript array: undefined past its end
elementAt(array, i) == IF i \in DOMAIN array THEN array[i] ELSE Undefined

\* a pivot that takes its row count from the first array
zipToFirst(args) ==
  [i \in 1..Len(args[1]) |-> [j \in 1..Len(args) |-> elementAt(args[j], i)]]

zip(args) ==
  LET longest == zipLongest(args, 1, <<>>)
  IN  [i \in 1..Len(longest) |-> [j \in 1..Len(args) |-> elementAt(args[j], i)]]

(***************************************************************************)
(* uniquify.                                                               *)
(***************************************************************************)
\* the first loop with counts[key] starting at 1
RECURSIVE uniquifyCountFromOne(_, _, _)
uniquifyCountFromOne(keys, i, counts) ==
  IF i > Len(keys) THEN counts
  ELSE uniquifyCountFromOne(keys, i + 1,
         [counts EXCEPT ![keys[i]] = IF @ = -1 THEN 1 ELSE @ + 1])

\* first loop: counts[key] is -1 while it is undefined
RECURSIVE uniquifyCount(_, _, _)
uniquifyCount(keys, i, counts) ==
  IF i > Len(keys) THEN counts
  ELSE uniquifyCount(keys, i + 1,
         [counts EXCEPT ![keys[i]] = IF @ = -1 THEN 0 ELSE @ + 1])

\* the second loop without the decrement of counts[key]
RECURSIVE uniquifyRenameNoDecrement(_, _, _, _)
uniquifyRenameNoDecrement(keys, i, counts, result) ==
  IF i < 1 THEN result
  ELSE LET key == keys[i]
       IN  IF counts[key] > 0
           THEN uniquifyRenameNoDecrement(keys, i - 1, counts,
                               <<key \o <<"_", "_">> \o ToStr(counts[key])>> \o result)
           ELSE uniquifyRenameNoDecrement(keys, i - 1, counts, <<key>> \o result)

\* second loop, from the last key down to the first; result.unshift(key)
RECURSIVE uniquifyRename(_, _, _, _)
uniquifyRename(keys, i, counts, result) ==
  IF i < 1 THEN result
  ELSE LET key == keys[i]
       IN  IF counts[key] > 0
           THEN uniquifyRename(keys, i - 1, [counts EXCEPT ![key] = @ - 1],
                               <<key \o <<"_", "_">> \o ToStr(counts[key])>> \o result)
           ELSE uniquifyRename(keys, i - 1, counts, <<key>> \o result)

uniquify(keys) ==
  uniquifyRename(keys, Len(keys),
                 uniquifyCount(keys, 1, [k \in Range(keys) |-> -1]), <<>>)

(***************************************************************************)
(* Cleaning of a header value or a cell:                                   *)
(*   .trim().replace(/(^")|("$)/g, '')                                     *)
(***************************************************************************)
WhiteSpace == {SPACE, TAB, LF, CR}

RECURSIVE trimStart(_)
trimStart(s) ==
  IF Len(s) > 0 /\ Head(s) \in WhiteSpace THEN trimStart(Tail(s)) ELSE s

RECURSIVE trimEnd(_)
trimEnd(s) ==
  IF Len(s) > 0 /\ s[Len(s)] \in WhiteSpace THEN trimEnd(Front(s)) ELSE s

trim(s) == trimEnd(trimStart(s))

\* the global replace removes a quote at the start and, independently, a
\* quote at the end (the two matches never overlap)
stripQuotes(s) ==
  LET s1 == IF Len(s) > 0 /\ Head(s) = QUOTE THEN Tail(s) ELSE s
  IN  IF Len(s1) > 0 /\ s1[Len(s1)] = QUOTE THEN Front(s1) ELSE s1

clean(s) == stripQuotes(trim(s))

(***************************************************************************)
(* Values of a Record.  A string value, a number (m * 10^e, m with no      *)
(* trailing zero digit, so that equal numbers are equal records; the texts *)
(* of the model are too short to leave the range a double holds exactly),  *)
(* and the other values JSON.parse yields on the texts of the model.       *)
(***************************************************************************)
Str(s) == [type |-> "string", str |-> s]

NaN == [type |-> "number", nan |-> TRUE]

RECURSIVE normalize(_, _)
normalize(m, e) ==
  IF m = 0 THEN [type |-> "number", nan |-> FALSE, m |-> 0, e |-> 0]
  ELSE IF m % 10 = 0 THEN normalize(m \div 10, e + 1)
  ELSE [type |-> "number", nan |-> FALSE, m |-> m, e |-> e]

Literal(name) == [type |-> "literal", name |-> name]

RECURSIVE digitsValue(_)
digitsValue(ds) ==
  IF Len(ds) = 0 THEN 0 ELSE digitsValue(Front(ds)) * 10 + DigitVal(ds[Len(ds)])

\* first position from i on that holds no digit
RECURSIVE skipDigits(_, _)
skipDigits(s, i) ==
  IF i <= Len(s) /\ IsDigit(s[i]) THEN skipDigits(s, i + 1) ELSE i

\* The decimal literals of the two conversions convert uses.  lenient: the
\* StrDecimalLiteral of ToNumber (value - 0): a sign + or -, leading zeros,
\* "4." and ".4".  Not lenient: the number of JSON.parse: a sign - only, no
\* leading zero, digits on both sides of the point.  (Infinity and the 0x,
\* 0o, 0b literals of ToNumber need letters no text of the model holds.)
scanNumber(s, lenient) ==
  LET n == Len(s)
      minus == n >= 1 /\ s[1] = "-"
      signed == minus \/ (lenient /\ n >= 1 /\ s[1] = "+")
      i1 == IF signed THEN 2 ELSE 1
      i2 == skipDigits(s, i1)
      hasDot == i2 <= n /\ s[i2] = "."
      i3 == IF hasDot THEN skipDigits(s, i2 + 1) ELSE i2
      intDigits == SubSeq(s, i1, i2 - 1)
      fracDigits == IF hasDot THEN SubSeq(s, i2 + 1, i3 - 1) ELSE <<>>
      hasExp == i3 <= n /\ s[i3] \in {"e", "E"}
      expSigned == hasExp /\ i3 + 1 <= n /\ s[i3 + 1] \in {"+", "-"}
      i4 == IF hasExp THEN (IF expSigned THEN i3 + 2 ELSE i3 + 1) ELSE i3
      i5 == IF hasExp THEN skipDigits(s, i4) ELSE i3
      expDigits == SubSeq(s, i4, i5 - 1)
      expValue == IF hasExp
                  THEN (IF expSigned /\ s[i3 + 1] = "-" THEN 0 - digitsValue(expDigits)
                        ELSE digitsValue(expDigits))
                  ELSE 0
      wellFormed ==
        /\ i5 = n + 1
        /\ hasExp => Len(expDigits) > 0
        /\ IF lenient THEN Len(intDigits) + Len(fracDigits) > 0
           ELSE /\ Len(intDigits) > 0
                /\ Len(intDigits) > 1 => intDigits[1] # "0"
                /\ hasDot => Len(fracDigits) > 0
      magnitude == digitsValue(intDigits \o fracDigits)
  IN  IF wellFormed
      THEN normalize(IF minus THEN 0 - magnitude ELSE magnitude, expValue - Len(fracDigits))
      ELSE NaN

\* value - 0
toNumber(value) == scanNumber(value, TRUE)

isNaN(number) == number.nan

\* JSON.parse(value): ok is FALSE where it throws.  Exact on the texts of
\* the model: numbers, the three literals, the empty array and object.
LiteralTexts == {<<"t", "r", "u", "e">>, <<"f", "a", "l", "s", "e">>, <<"n", "u", "l", "l">>,
                 <<"[", "]">>, <<"{", "}">>}

jsonParse(value) ==
  IF value \in LiteralTexts THEN [ok |-> TRUE, value |-> Literal(value)]
  ELSE LET number == scanNumber(value, FALSE)
       IN  IF number.nan THEN [ok |-> FALSE, value |-> Str(value)]
           ELSE [ok |-> TRUE, value |-> number]

(***************************************************************************)
(* The body of convert's loop over the header keys, for one cell.          *)
(***************************************************************************)
\* (a[l][i]||'').trim().replace(/(^")|("$)/g, '')
cellValue(row, i) ==
  LET raw == elementAt(row, i)
  IN  clean(IF raw = Undefined THEN <<>> ELSE raw)

coerceLenient(value, options) ==
  LET number == IF value = <<>> THEN NaN ELSE toNumber(value)
  IN  IF options.parseJSON \/ (options.parseNumbers /\ ~isNaN(number))
      THEN (IF isNaN(number) THEN Str(value) ELSE number)
      ELSE Str(value)

coerce(value, options) ==
  LET number == IF value = <<>> THEN NaN ELSE toNumber(value)
  IN  IF options.parseJSON \/ (options.parseNumbers /\ ~isNaN(number))
      THEN (IF jsonParse(value).ok THEN jsonParse(value).value ELSE Str(value))
      ELSE Str(value)

\* object[key] = value
Put(object, key, value) ==
  [k \in DOMAIN object \cup {key} |-> IF k = key THEN value ELSE object[k]]

EmptyObject == [k \in {} |-> Null]

\* the inner loop that also stores the first cell under its header key
RECURSIVE mapCellsKeyAsField(_, _, _, _, _, _)
mapCellsKeyAsField(cells, keys, options, i, row, hashKey) ==
  IF i > Len(keys) THEN [row |-> row, hashKey |-> hashKey]
  ELSE LET value == cellValue(cells, i)
       IN  mapCellsKeyAsField(cells, keys, options, i + 1,
                              Put(row, keys[i], coerce(value, options)),
                              IF options.hash /\ i = 1 THEN value ELSE hashKey)

\* the inner loop over i: [row |-> the Record, hashKey |-> the var hashKey]
RECURSIVE mapCells(_, _, _, _, _, _)
mapCells(cells, keys, options, i, row, hashKey) ==
  IF i > Len(keys) THEN [row |-> row, hashKey |-> hashKey]
  ELSE LET value == cellValue(cells, i)
       IN  IF options.hash /\ i = 1
           THEN mapCells(cells, keys, options, i + 1, row, value)
           ELSE mapCells(cells, keys, options, i + 1,
                         Put(row, keys[i], coerce(value, options)), hashKey)

(***************************************************************************)
(* The arguments of the calls the model explores.                          *)
(***************************************************************************)
\* options || (options = {}): a key that is not set reads as falsy; the
\* separator that is not set is "", falsy like undefined
NoOptions ==
  [separator |-> "", parseNumbers |-> FALSE, parseJSON |-> FALSE,
   transpose |-> FALSE, hash |-> FALSE, returnArray |-> FALSE]

Call(text, opts) == [csv |-> text, options |-> opts]

\* free texts, separator detected
TextAlphabet == {"a", COMMA, SEMI, QUOTE, LF}

TextCalls == {Call(t, NoOptions) : t \in SeqsUpTo(TextAlphabet, MaxLen)}

\* texts of separators only, separator detected
SeparatorCalls == {Call(t, NoOptions) : t \in SeqsUpTo({COMMA, SEMI, TAB}, MaxLen)}

\* texts with both kinds of line break
LineBreakCalls == {Call(t, NoOptions) : t \in SeqsUpTo({"a", QUOTE, LF, CR}, MaxLen)}

\* texts parsed with a separator the caller supplies
SuppliedCalls ==
  {Call(t, [NoOptions EXCEPT !.separator = sep]) :
     t \in SeqsUpTo({"a", PIPE, COMMA}, MaxLen), sep \in {PIPE, SEMI, TAB}}

\* texts pivoted before the header is read
TransposeCalls ==
  {Call(t, [NoOptions EXCEPT !.transpose = TRUE, !.returnArray = r, !.hash = h]) :
     t \in SeqsUpTo({"a", COMMA, LF}, MaxLen), r \in BOOLEAN, h \in BOOLEAN}

\* a header h,k and one data row holding a cell text and an empty cell
CellTexts ==
  SeqsUpTo({"4", "0", ".", "-", "+", "e"}, MaxCell)
    \cup {<<"4", "2">>, <<"4", "2", "a">>, <<SPACE, "4", "2", SPACE>>,
          <<"t", "r", "u", "e">>, <<"n", "u", "l", "l">>, <<"[", "]">>}

CellCalls ==
  {Call(<<"h", COMMA, "k", LF>> \o c \o <<COMMA>>,
        [NoOptions EXCEPT !.parseNumbers = n, !.parseJSON = j]) :
     c \in CellTexts, n \in BOOLEAN, j \in BOOLEAN}

\* tables: a header over HeaderValues and data rows whose first cell is a
\* key and whose other cells hold the number of the row
HeaderValues == {<<"x">>, <<"x", "_", "_", "1">>}

RowKeys == {<<"k">>, <<"m">>}

Headers == SeqsUpTo(HeaderValues, MaxCols) \ {<<>>}

DataRow(key, l, width) == [i \in 1..width |-> IF i = 1 THEN key ELSE ToStr(l)]

Tables ==
  {<<h>> \o [l \in 1..Len(ks) |-> DataRow(ks[l], l, Len(h))] :
     h \in Headers, ks \in SeqsUpTo(RowKeys, MaxRows)}

\* the text of a table: fields joined by commas, lines by line feeds
Serialize(table) == Join([r \in 1..Len(table) |-> Join(table[r], <<COMMA>>)], <<LF>>)

TableCalls ==
  {Call(Serialize(t), [NoOptions EXCEPT !.hash = h]) : t \in Tables, h \in BOOLEAN}

\* "a,b",c newline 1,2
QuotedExample == <<QUOTE, "a", COMMA, "b", QUOTE, COMMA, "c", LF, "1", COMMA, "2">>

\* "he said ""hi"""
DoubledExample ==
  <<QUOTE, "h", "e", SPACE, "s", "a", "i", "d", SPACE, QUOTE, QUOTE, "h", "i",
    QUOTE, QUOTE, QUOTE>>

\* id,v newline k1,10 newline k1,20
HashExample ==
  <<"i", "d", COMMA, "v", LF, "k", "1", COMMA, "1", "0", LF, "k", "1", COMMA, "2", "0">>

\* line feed, a,b, two CR LF, c, line feed
LineBreakExample == <<LF, "a", COMMA, "b", CR, LF, CR, LF, "c", LF>>

\* a newline "" newline b
EmptyQuotedExample == <<"a", LF, QUOTE, QUOTE, LF, "b">>

ExampleCalls ==
  {Call(LineBreakExample, NoOptions),
   Call(EmptyQuotedExample, NoOptions),
   Call(QuotedExample, NoOptions),
   Call(QuotedExample, [NoOptions EXCEPT !.returnArray = TRUE]),
   Call(DoubledExample, NoOptions),
   Call(DoubledExample, [NoOptions EXCEPT !.returnArray = TRUE]),
   Call(HashExample, [NoOptions EXCEPT !.hash = TRUE]),
   Call(HashExample, NoOptions)}

Calls ==
  TextCalls \cup SeparatorCalls \cup LineBreakCalls \cup SuppliedCalls
    \cup TransposeCalls \cup CellCalls \cup TableCalls \cup ExampleCalls

(***************************************************************************)
(* State.                                                                  *)
(***************************************************************************)
VARIABLES
  csv, options,                \* the arguments of convert
  pc,                          \* where the call is
  separator,                   \* convert's var separator
  parserSeparator,             \* the parser's var separator
  pos,                         \* the parser's cursor
  rightmostFailuresPos, rightmostFailuresExpected,
  linePos0,                    \* pos0 of the running parse_line
  svPos2,                      \* pos2 (and pos3) of parse_sv
  fieldPos0,                   \* pos0 of the running parse_field
  lineCtx,                     \* which call of parse_line in parse_sv runs
  rows, fields, text,          \* results collected by parse_sv, parse_line, parse_field
  unterminated,                \* history: a quoted field ran to the end of input unclosed
  result,                      \* what the start rule returned
  a, keys, json, l, hashKey,   \* convert's vars
  error, output                \* what convert threw, what it returned

vars ==
  <<csv, options, pc, separator, parserSeparator, pos, rightmostFailuresPos,
    rightmostFailuresExpected, linePos0, svPos2, fieldPos0, lineCtx, rows, fields,
    text, unterminated, result, a, keys, json, l, hashKey, error, output>>

parserVars ==
  <<parserSeparator, pos, rightmostFailuresPos, rightmostFailuresExpected, linePos0,
    svPos2, fieldPos0, lineCtx, rows, fields, text, unterminated, result>>

mapperVars == <<a, keys, json, l, hashKey>>

\* nothing thrown yet
NoError == [name |-> "none"]

\* throw of one of convert's message strings
Thrown(message) == [name |-> "string", message |-> message]

Init ==
  /\ \E call \in Calls : csv = call.csv /\ options = call.options
  /\ pc = "convert"
  /\ separator = ""
  /\ parserSeparator = ""
  /\ pos = 0
  /\ rightmostFailuresPos = 0
  /\ rightmostFailuresExpected = <<>>
  /\ linePos0 = 0
  /\ svPos2 = 0
  /\ fieldPos0 = 0
  /\ lineCtx = "first"
  /\ rows = <<>>
  /\ fields = <<>>
  /\ text = <<>>
  /\ unterminated = FALSE
  /\ result = Null
  /\ a = <<>>
  /\ keys = <<>>
  /\ json = <<>>
  /\ l = 1
  /\ hashKey = Undefined
  /\ error = NoError
  /\ output = Null

(***************************************************************************)
(* csvParser.parse: helpers.                                               *)
(***************************************************************************)
\* input.charAt(p): "" at and past the end of the input
charAt(p) == IF p < Len(csv) THEN csv[p + 1] ELSE ""

\* a line break test that knows the line feed only
isLineBreakLineFeedOnly(c) == c = LF

\* /^[\n\r]/.test(c)
isLineBreak(c) == c \in {LF, CR}

ExpectedQuote == "\"\\\"\""
ExpectedLineBreak == "[\\n\\r]"
ExpectedNotLineBreak == "[^\\n\\r]"
ExpectedNotQuote == "[^\"]"
ExpectedAny == "any character"

\* matchFailed without the reset of the expectations at a greater position
matchFailedKeepsExpected(p, rf, failure) ==
  IF p < rf.pos THEN rf
  ELSE [pos |-> p, expected |-> Append(rf.expected, failure)]

\* matchFailed(failure) called with the cursor at p; rf is the pair of
\* rightmostFailuresPos and rightmostFailuresExpected
matchFailed(p, rf, failure) ==
  IF p < rf.pos THEN rf
  ELSE IF p > rf.pos THEN [pos |-> p, expected |-> <<failure>>]
  ELSE [pos |-> rf.pos, expected |-> Append(rf.expected, failure)]

rightmost == [pos |-> rightmostFailuresPos, expected |-> rightmostFailuresExpected]

\* the assignment of both rightmost variables from a pair
SetRightmost(rf) ==
  /\ rightmostFailuresPos' = rf.pos
  /\ rightmostFailuresExpected' = rf.expected

\* cleanupExpected: sorted, duplicates dropped; what it holds is this set
cleanupExpected(expected) == Range(expected)

\* computeErrorPosition's loop from i on (the texts of the model hold no
\* U+2028 or U+2029)
RECURSIVE errorPositionFrom(_, _, _, _, _)
errorPositionFrom(i, end, line, column, seenCR) ==
  IF i >= end THEN [line |-> line, column |-> column]
  ELSE LET ch == charAt(i)
       IN  IF ch = LF
           THEN errorPositionFrom(i + 1, end, IF seenCR THEN line ELSE line + 1, 1, FALSE)
           ELSE IF ch = CR
           THEN errorPositionFrom(i + 1, end, line + 1, 1, TRUE)
           ELSE errorPositionFrom(i + 1, end, line, column + 1, FALSE)

computeErrorPosition ==
  errorPositionFrom(0, Max(pos, rightmostFailuresPos), 1, 1, FALSE)

(***************************************************************************)
(* convert, up to the call of the parser.                                  *)
(***************************************************************************)
\* options.separator || detectSeparator(csv)
resolveSeparator == IF options.separator # "" THEN options.separator ELSE detectSeparator(csv)

ConvertStart ==
  /\ pc = "convert"
  /\ IF Len(csv) = 0
     THEN /\ error' = Thrown(errorEmpty)
          /\ pc' = "thrown"
          /\ UNCHANGED separator
     ELSE /\ separator' = resolveSeparator
          /\ IF separator' = ""
             THEN error' = Thrown(errorDetectingSeparator) /\ pc' = "thrown"
             ELSE pc' = "parse" /\ UNCHANGED error
  /\ UNCHANGED <<csv, options, parserVars, mapperVars, output>>

\* the separator the start rule sets: parse_comma, parse_semicolon or
\* parse_tab, and parse_comma when the rule name is undefined
startRuleSeparator(sep) ==
  LET startRule == IF pegjsSeparatorNames(sep) = "undefined" THEN "comma"
                   ELSE pegjsSeparatorNames(sep)
  IN  IF startRule = "semicolon" THEN SEMI
      ELSE IF startRule = "tab" THEN TAB
      ELSE COMMA

\* csvParser.parse up to the call of parse_sv by the start rule
ParseStart ==
  /\ pc = "parse"
  /\ pos' = 0
  /\ rightmostFailuresPos' = 0
  /\ rightmostFailuresExpected' = <<>>
  /\ parserSeparator' = startRuleSeparator(separator)
  /\ lineCtx' = "first"
  /\ pc' = "sv_lead"
  /\ UNCHANGED <<csv, options, separator, linePos0, svPos2, fieldPos0, rows, fields,
                 text, unterminated, result, mapperVars, error, output>>

(***************************************************************************)
(* parse_sv.                                                               *)
(***************************************************************************)
\* [\n\r]* before the first line, then the call of parse_line
SvLead ==
  /\ pc = "sv_lead"
  /\ IF isLineBreak(charAt(pos))
     THEN /\ pos' = pos + 1
          /\ UNCHANGED <<pc, rightmostFailuresPos, rightmostFailuresExpected, linePos0, fields>>
     ELSE /\ SetRightmost(matchFailed(pos, rightmost, ExpectedLineBreak))
          /\ linePos0' = pos
          /\ fields' = <<>>
          /\ pc' = "field"
          /\ UNCHANGED pos
  /\ UNCHANGED <<csv, options, separator, parserSeparator, svPos2, fieldPos0, lineCtx,
                 rows, text, unterminated, result, mapperVars, error, output>>

\* ([\n\r]+ line)*: one line break, or the end of the run of line breaks
\* and, when the run is not empty, the call of parse_line
SvRest ==
  /\ pc = "sv_rest"
  /\ IF isLineBreak(charAt(pos))
     THEN /\ pos' = pos + 1
          /\ UNCHANGED <<pc, rightmostFailuresPos, rightmostFailuresExpected, linePos0, fields>>
     ELSE /\ SetRightmost(matchFailed(pos, rightmost, ExpectedLineBreak))
          /\ UNCHANGED pos
          /\ IF pos > svPos2
             THEN linePos0' = pos /\ fields' = <<>> /\ pc' = "field"
             ELSE pc' = "sv_trail" /\ UNCHANGED <<linePos0, fields>>
  /\ UNCHANGED <<csv, options, separator, parserSeparator, svPos2, fieldPos0, lineCtx,
                 rows, text, unterminated, result, mapperVars, error, output>>

\* [\n\r]* after the last line, then the return of the rows
SvTrail ==
  /\ pc = "sv_trail"
  /\ IF isLineBreak(charAt(pos))
     THEN /\ pos' = pos + 1
          /\ UNCHANGED <<pc, rightmostFailuresPos, rightmostFailuresExpected, result>>
     ELSE /\ SetRightmost(matchFailed(pos, rightmost, ExpectedLineBreak))
          /\ result' = rows
          /\ pc' = "parse_end"
          /\ UNCHANGED pos
  /\ UNCHANGED <<csv, options, separator, parserSeparator, linePos0, svPos2, fieldPos0,
                 lineCtx, rows, fields, text, unterminated, mapperVars, error, output>>

(***************************************************************************)
(* parse_field and parse_char.                                             *)
(***************************************************************************)
\* entry of parse_field: the opening quote of the first alternative
Field ==
  /\ pc = "field"
  /\ fieldPos0' = pos
  /\ text' = <<>>
  /\ IF charAt(pos) = QUOTE
     THEN /\ pos' = pos + 1
          /\ pc' = "char"
          /\ UNCHANGED <<rightmostFailuresPos, rightmostFailuresExpected>>
     ELSE /\ SetRightmost(matchFailed(pos, rightmost, ExpectedQuote))
          /\ pc' = "unquoted"
          /\ UNCHANGED pos
  /\ UNCHANGED <<csv, options, separator, parserSeparator, linePos0, svPos2, lineCtx,
                 rows, fields, unterminated, result, mapperVars, error, output>>

\* the character one call of parse_char returns at the cursor and where
\* it leaves the cursor; ok is FALSE when both alternatives fail
NoChar == [ok |-> FALSE, char |-> "", next |-> -1]

charResultRaw(p) ==
  IF p < Len(csv) /\ charAt(p) # QUOTE
  THEN [ok |-> TRUE, char |-> charAt(p), next |-> p + 1]
  ELSE NoChar

charResult(p) ==
  IF charAt(p) = QUOTE
  THEN (IF charAt(p + 1) = QUOTE THEN [ok |-> TRUE, char |-> QUOTE, next |-> p + 2]
        ELSE NoChar)
  ELSE IF p < Len(csv) THEN [ok |-> TRUE, char |-> charAt(p), next |-> p + 1]
  ELSE NoChar

\* the failures one call of parse_char records at the cursor
charFailures(p, rf) ==
  IF charAt(p) = QUOTE
  THEN (IF charAt(p + 1) = QUOTE THEN rf
        ELSE matchFailed(p, matchFailed(p + 1, rf, ExpectedQuote), ExpectedNotQuote))
  ELSE IF p < Len(csv) THEN matchFailed(p, rf, ExpectedQuote)
  ELSE matchFailed(p, matchFailed(p, rf, ExpectedQuote), ExpectedNotQuote)

\* one call of parse_char in the loop of the quoted alternative
Char ==
  /\ pc = "char"
  /\ SetRightmost(charFailures(pos, rightmost))
  /\ IF ~charResult(pos).ok
     THEN pc' = "close" /\ UNCHANGED <<pos, text>>
     ELSE /\ pos' = charResult(pos).next
          /\ text' = Append(text, charResult(pos).char)
          /\ UNCHANGED pc
  /\ UNCHANGED <<csv, options, separator, parserSeparator, linePos0, svPos2, fieldPos0,
                 lineCtx, rows, fields, unterminated, result, mapperVars, error, output>>

\* the closing quote with the cursor left where the quoted alternative
\* stopped when it fails
CloseWithoutRestore ==
  /\ pc = "close"
  /\ IF charAt(pos) = QUOTE
     THEN /\ pos' = pos + 1
          /\ fields' = Append(fields, text)
          /\ pc' = "line_sep"
          /\ UNCHANGED <<rightmostFailuresPos, rightmostFailuresExpected, text, unterminated>>
     ELSE /\ SetRightmost(matchFailed(pos, rightmost, ExpectedQuote))
          /\ text' = <<>>
          /\ unterminated' = TRUE
          /\ pc' = "unquoted"
          /\ UNCHANGED <<pos, fields>>
  /\ UNCHANGED <<csv, options, separator, parserSeparator, linePos0, svPos2, fieldPos0,
                 lineCtx, rows, result, mapperVars, error, output>>

\* the closing quote: the field is text.join(''), or the cursor goes back
\* to pos0 and the second alternative runs
Close ==
  /\ pc = "close"
  /\ IF charAt(pos) = QUOTE
     THEN /\ pos' = pos + 1
          /\ fields' = Append(fields, text)
          /\ pc' = "line_sep"
          /\ UNCHANGED <<rightmostFailuresPos, rightmostFailuresExpected, text, unterminated>>
     ELSE /\ SetRightmost(matchFailed(pos, rightmost, ExpectedQuote))
          /\ pos' = fieldPos0
          /\ text' = <<>>
          /\ unterminated' = TRUE
          /\ pc' = "unquoted"
          /\ UNCHANGED fields
  /\ UNCHANGED <<csv, options, separator, parserSeparator, linePos0, svPos2, fieldPos0,
                 lineCtx, rows, result, mapperVars, error, output>>

\* one iteration of the second alternative: a character that is neither a
\* line break nor the separator, or the end of the field
Unquoted ==
  /\ pc = "unquoted"
  /\ IF charAt(pos) # "" /\ ~isLineBreak(charAt(pos))
     THEN /\ UNCHANGED <<rightmostFailuresPos, rightmostFailuresExpected>>
          /\ IF charAt(pos) # parserSeparator
             THEN /\ pos' = pos + 1
                  /\ text' = Append(text, charAt(pos))
                  /\ UNCHANGED <<pc, fields>>
             ELSE /\ fields' = Append(fields, text)
                  /\ pc' = "line_sep"
                  /\ UNCHANGED <<pos, text>>
     ELSE /\ SetRightmost(matchFailed(pos, rightmost, ExpectedNotLineBreak))
          /\ fields' = Append(fields, text)
          /\ pc' = "line_sep"
          /\ UNCHANGED <<pos, text>>
  /\ UNCHANGED <<csv, options, separator, parserSeparator, linePos0, svPos2, fieldPos0,
                 lineCtx, rows, unterminated, result, mapperVars, error, output>>

(***************************************************************************)
(* parse_line.                                                             *)
(***************************************************************************)
\* one iteration of (char &{char == separator} field)*
LineSep ==
  /\ pc = "line_sep"
  /\ IF Len(csv) > pos
     THEN /\ UNCHANGED <<rightmostFailuresPos, rightmostFailuresExpected>>
          /\ IF charAt(pos) = parserSeparator
             THEN pos' = pos + 1 /\ pc' = "field"
             ELSE pc' = "line_end" /\ UNCHANGED pos
     ELSE /\ SetRightmost(matchFailed(pos, rightmost, ExpectedAny))
          /\ pc' = "line_end"
          /\ UNCHANGED pos
  /\ UNCHANGED <<csv, options, separator, parserSeparator, linePos0, svPos2, fieldPos0,
                 lineCtx, rows, fields, text, unterminated, result, mapperVars, error,
                 output>>

\* &{ return !!first || rest.length; }
lineAccepted(line) == line[1] # <<>> \/ Len(line) - 1 > 0

\* the end of parse_line and what parse_sv does with its result
LineEnd ==
  /\ pc = "line_end"
  /\ IF lineAccepted(fields)
     THEN /\ rows' = Append(rows, fields)
          /\ svPos2' = pos
          /\ lineCtx' = "rest"
          /\ pc' = "sv_rest"
          /\ UNCHANGED <<pos, result>>
     ELSE IF lineCtx = "first"
          THEN /\ pos' = 0
               /\ result' = Null
               /\ pc' = "parse_end"
               /\ UNCHANGED <<rows, svPos2, lineCtx>>
          ELSE /\ pos' = svPos2
               /\ pc' = "sv_trail"
               /\ UNCHANGED <<rows, svPos2, lineCtx, result>>
  /\ UNCHANGED <<csv, options, separator, parserSeparator, rightmostFailuresPos,
                 rightmostFailuresExpected, linePos0, fieldPos0, fields, text,
                 unterminated, mapperVars, error, output>>

(***************************************************************************)
(* The end of csvParser.parse, and convert's catch.                        *)
(***************************************************************************)
SyntaxError(expected, found, offset, line, column) ==
  [name |-> "SyntaxError", expected |-> expected, found |-> found, offset |-> offset,
   line |-> line, column |-> column]

\* var offset = Math.max(pos, rightmostFailuresPos)
errorOffsetAtCursor == pos

errorOffset == Max(pos, rightmostFailuresPos)

ParseEnd ==
  /\ pc = "parse_end"
  /\ IF result = Null \/ pos # Len(csv)
     THEN LET offset == errorOffset
              found == IF offset < Len(csv) THEN charAt(offset) ELSE "null"
              errorPosition == computeErrorPosition
          IN  /\ error' = SyntaxError(cleanupExpected(rightmostFailuresExpected), found,
                                      offset, errorPosition.line, errorPosition.column)
              /\ pc' = "thrown"
              /\ UNCHANGED a
     ELSE /\ a' = result
          /\ pc' = "transpose"
          /\ UNCHANGED error
  /\ UNCHANGED <<csv, options, separator, parserVars, keys, json, l, hashKey, output>>

(***************************************************************************)
(* convert, after the parser.                                              *)
(***************************************************************************)
\* options.transpose and options.returnArray
Transpose ==
  /\ pc = "transpose"
  /\ a' = IF options.transpose THEN zip(a) ELSE a
  /\ IF options.returnArray
     THEN output' = a' /\ pc' = "returned"
     ELSE pc' = "header" /\ UNCHANGED output
  /\ UNCHANGED <<csv, options, separator, parserVars, keys, json, l, hashKey, error>>

\* keys.map(function(key) { return key.trim().replace(/(^")|("$)/g, ''); })
cleanKeys(header) == [i \in 1..Len(header) |-> clean(header[i])]

\* a.shift(), the empty header, the cleaning of the keys (trim of an
\* undefined key is a TypeError), uniquify, and the empty json
Header ==
  /\ pc = "header"
  /\ a' = Tail(a)
  /\ IF Len(a[1]) = 0
     THEN /\ error' = Thrown(errorEmptyHeader)
          /\ pc' = "thrown"
          /\ UNCHANGED <<keys, json>>
     ELSE IF Undefined \in Range(a[1])
     THEN /\ error' = [name |-> "TypeError"]
          /\ pc' = "thrown"
          /\ UNCHANGED <<keys, json>>
     ELSE /\ keys' = uniquify(cleanKeys(a[1]))
          /\ json' = IF options.hash THEN EmptyObject ELSE <<>>
          /\ pc' = "rows"
          /\ UNCHANGED error
  /\ l' = 1
  /\ UNCHANGED <<csv, options, separator, parserVars, hashKey, output>>

\* one iteration of the loop over the data rows
Row ==
  /\ pc = "rows"
  /\ l <= Len(a)
  /\ LET mapped == mapCells(a[l], keys, options, 1, EmptyObject, hashKey)
     IN  /\ hashKey' = mapped.hashKey
         /\ json' = IF options.hash THEN Put(json, mapped.hashKey, mapped.row)
                    ELSE Append(json, mapped.row)
  /\ l' = l + 1
  /\ UNCHANGED <<csv, options, pc, separator, parserVars, a, keys, error, output>>

\* return json
Return ==
  /\ pc = "rows"
  /\ l > Len(a)
  /\ output' = json
  /\ pc' = "returned"
  /\ UNCHANGED <<csv, options, separator, parserVars, mapperVars, error>>

Next ==
  \/ ConvertStart
  \/ ParseStart
  \/ SvLead
  \/ SvRest
  \/ SvTrail
  \/ Field
  \/ Char
  \/ Close
  \/ Unquoted
  \/ LineSep
  \/ LineEnd
  \/ ParseEnd
  \/ Transpose
  \/ Header
  \/ Row
  \/ Return

Spec == Init /\ [][Next]_vars

\* convert up to the return of csvParser.parse
ParseNext ==
  \/ ConvertStart
  \/ ParseStart
  \/ SvLead
  \/ SvRest
  \/ SvTrail
  \/ Field
  \/ Char
  \/ Close
  \/ Unquoted
  \/ LineSep
  \/ LineEnd
  \/ ParseEnd

\* every step of ParseNext changes the position in the code or the cursor
progress == <<pc, pos>>

\* the call of the parser runs to completion: it is one sequential
\* computation that nothing suspends, so a step that can be taken is taken
ParseSpec == Init /\ [][ParseNext]_vars /\ WF_progress(ParseNext)

TypeOK ==
  /\ pc \in {"convert", "parse", "sv_lead", "sv_rest", "sv_trail", "field", "char",
             "close", "unquoted", "line_sep", "line_end", "parse_end", "transpose",
             "header", "rows", "returned", "thrown"}
  /\ pos \in 0..Len(csv)
  /\ rightmostFailuresPos \in 0..Len(csv)

(***************************************************************************)
(* Properties.                                                             *)
(***************************************************************************)
parsing ==
  pc \in {"sv_lead", "sv_rest", "sv_trail", "field", "char", "close", "unquoted",
          "line_sep", "line_end", "parse_end"}

finished == pc \in {"returned", "thrown"}

\* number of positions of t that hold c
occurrences(t, c) == Cardinality({i \in DOMAIN t : t[i] = c})

noCandidate(t) == \A k \in DOMAIN separators : occurrences(t, separators[k]) = 0

\* C1: when no separator is supplied and none of ',', ';' and tab occurs in
\* the non-empty text, convert throws 'We could not detect the separator.'
\* and returns nothing.
C1_UndetectableThrows ==
  (pc # "convert" /\ options.separator = "" /\ Len(csv) > 0 /\ noCandidate(csv))
    => (pc = "thrown" /\ error = Thrown(errorDetectingSeparator) /\ output = Null)

\* C2: when a candidate occurs in the text, the detected separator is the
\* candidate with the most occurrences anywhere in the text, and among
\* candidates with equally many the earliest of comma, semicolon, tab; a
\* text with semicolons only gives ';', a text with commas only gives ','.
C2_MostFrequentCandidate ==
  (pc # "convert" /\ options.separator = "" /\ ~noCandidate(csv))
    => /\ \E k \in DOMAIN separators :
            /\ separator = separators[k]
            /\ \A j \in DOMAIN separators :
                 occurrences(csv, separators[j]) <= occurrences(csv, separators[k])
            /\ \A j \in 1..(k - 1) :
                 occurrences(csv, separators[j]) < occurrences(csv, separators[k])
       /\ (occurrences(csv, COMMA) = 0 /\ occurrences(csv, TAB) = 0) => separator = SEMI
       /\ (occurrences(csv, SEMI) = 0 /\ occurrences(csv, TAB) = 0) => separator = COMMA

\* a tie of semicolon and tab above comma, won by the semicolon
C2_Witness ==
  /\ pc = "parse"
  /\ options.separator = ""
  /\ occurrences(csv, SEMI) = occurrences(csv, TAB)
  /\ occurrences(csv, SEMI) > occurrences(csv, COMMA)
  /\ separator = SEMI

\* C3: with options.separator supplied, the parser splits fields on exactly
\* that character, whatever the character.
C3_SuppliedSeparatorSplits ==
  (options.separator # "" /\ parsing) => parserSeparator = options.separator

\* a quoted field's text with each doubled quote read as one quote
RECURSIVE undouble(_)
undouble(s) ==
  IF Len(s) = 0 THEN <<>>
  ELSE IF Len(s) >= 2 /\ s[1] = QUOTE /\ s[2] = QUOTE
  THEN <<QUOTE>> \o undouble(SubSeq(s, 3, Len(s)))
  ELSE <<s[1]>> \o undouble(Tail(s))

\* C4: the value of a quoted field is the text between its opening quote
\* and its closing quote (the first quote after it that is not doubled),
\* separators and line breaks kept, each doubled quote read as one quote;
\* "a,b",c newline 1,2 gives the rows ["a,b","c"] and ["1","2"], and
\* "he said ""hi""" gives he said "hi".
C4_QuotedFieldValue ==
  /\ [][(pc = "close" /\ pc' = "line_sep")
          => /\ csv[fieldPos0 + 1] = QUOTE
             /\ csv[pos'] = QUOTE
             /\ charAt(pos') # QUOTE
             /\ fields' = Append(fields, undouble(SubSeq(csv, fieldPos0 + 2, pos' - 1)))]_vars
  /\ [](pc = "transpose" /\ csv = QuotedExample
          => result = << <<<<"a", COMMA, "b">>, <<"c">>>>, <<<<"1">>, <<"2">>>> >>)
  /\ [](pc = "transpose" /\ csv = DoubledExample
          => result = << <<<<"h", "e", SPACE, "s", "a", "i", "d", SPACE, QUOTE, "h", "i", QUOTE>>>> >>)

\* a parsed table with a field that holds the separator and a line break
C4_Witness ==
  /\ pc = "transpose"
  /\ \E r \in DOMAIN result : \E f \in DOMAIN result[r] :
       {parserSeparator, LF} \subseteq Range(result[r][f])

\* 1-based line of offset o: one more than the line breaks before it, CR LF
\* counting once
lineOf(o) ==
  1 + Cardinality({i \in 1..o : \/ csv[i] = CR
                                \/ csv[i] = LF /\ (i = 1 \/ csv[i - 1] # CR)})

\* 1-based column of offset o: its distance from the last line break before it
columnOf(o) ==
  LET breaks == {i \in 1..o : csv[i] \in {LF, CR}}
  IN  o + 1 - (IF breaks = {} THEN 0 ELSE CHOOSE i \in breaks : \A j \in breaks : j <= i)

\* C5 as stated: a field that starts with a double quote and has no closing
\* quote before the end of the input makes convert throw SyntaxError, with
\* the line and column of the place where the closing quote is missing.
C5_UnterminatedThrows ==
  (unterminated /\ ~parsing)
    => /\ pc = "thrown"
       /\ error.name = "SyntaxError"
       /\ error.line = lineOf(Len(csv))
       /\ error.column = columnOf(Len(csv))

\* C5 amended: a field that starts with a double quote and has no closing
\* quote is read again as an unquoted field; when convert throws SyntaxError
\* for such an input, offset, line and column are those of the end of the
\* input, where the closing quote is missing.
C5_UnterminatedReportsEnd ==
  /\ (unterminated /\ pc = "unquoted" /\ text = <<>>) => pos = fieldPos0
  /\ (unterminated /\ pc = "thrown" /\ error.name = "SyntaxError")
       => /\ error.offset = Len(csv)
          /\ error.found = "null"
          /\ error.line = lineOf(Len(csv))
          /\ error.column = columnOf(Len(csv))

\* a SyntaxError after an unclosed quoted field that spans a line break
C5_Witness ==
  /\ unterminated
  /\ pc = "thrown"
  /\ error.name = "SyntaxError"
  /\ error.line > 1
  /\ pos < Len(csv)

\* the row the Header Processor reads: row 0 of the parsed table, pivoted
\* when options.transpose is set
headerRow == (IF options.transpose THEN zip(result) ELSE result)[1]

\* the header values as uniquify receives them
headerValues == cleanKeys(headerRow)

suffixed(value, n) == IF n = 0 THEN value ELSE value \o <<"_", "_">> \o ToStr(n)

C7_KeysUnique ==
  pc = "rows" => \A i, j \in DOMAIN keys : i # j => keys[i] # keys[j]

\* C8: in array mode, a rectangular input with N data rows and K header
\* columns gives N Records, in row order, each with exactly K keys.
C8_ArrayShape ==
  (pc = "returned" /\ ~options.hash /\ ~options.returnArray
     /\ \A r \in DOMAIN a : Len(a[r]) = Len(headerRow))
    => /\ Len(output) = Len(a)
       /\ \A r \in DOMAIN output : Cardinality(DOMAIN output[r]) = Len(headerRow)

\* the Record of a data row in hash mode: the cells of the columns after
\* the first, each under its key
fieldsOf(row) ==
  [k \in {keys[i] : i \in 2..Len(keys)} |->
     LET i == CHOOSE i \in 2..Len(keys) :
                /\ keys[i] = k
                /\ \A j \in 2..Len(keys) : keys[j] = k => j <= i
     IN  coerce(cellValue(row, i), options)]

\* C9: in hash mode the cleaned first cell of a data row is the row's key in
\* the output and no field of its Record; the output has one entry per key,
\* the Record of the last row with that key, and nothing is thrown once the
\* keys are set; id,v / k1,10 / k1,20 gives the one entry k1 -> {v: "20"}.
C9_HashLastWins ==
  /\ (pc = "thrown" /\ options.hash) => (keys = <<>> /\ json = <<>>)
  /\ (pc = "returned" /\ options.hash /\ ~options.returnArray)
    => /\ DOMAIN output = {cellValue(a[r], 1) : r \in DOMAIN a}
       /\ \A r \in DOMAIN a :
            (\A q \in DOMAIN a : q > r => cellValue(a[q], 1) # cellValue(a[r], 1))
              => output[cellValue(a[r], 1)] = fieldsOf(a[r])
       /\ csv = HashExample
            => output = (<<"k", "1">> :> (<<"v">> :> Str(<<"2", "0">>)))

\* two data rows with the same key and different Records were mapped
C9_Witness ==
  /\ pc = "returned"
  /\ options.hash
  /\ ~options.returnArray
  /\ \E r, q \in DOMAIN a :
       /\ r < q
       /\ cellValue(a[r], 1) = cellValue(a[q], 1)
       /\ fieldsOf(a[r]) # fieldsOf(a[q])
       /\ output[cellValue(a[r], 1)] = fieldsOf(a[q])

\* the value of the cell in column i of data row r of the returned array
returnedCell(r, i) == output[r][keys[i]]

\* the cells a claim about the array output speaks of: parseNumbers alone is
\* set, and no later column has the same key
numberCells ==
  {<<r, i>> \in (DOMAIN a) \X (DOMAIN keys) : \A j \in DOMAIN keys : j > i => keys[j] # keys[i]}

numbersOnly ==
  /\ pc = "returned"
  /\ options.parseNumbers
  /\ ~options.parseJSON
  /\ ~options.hash
  /\ ~options.returnArray

\* C10 as stated: with parseNumbers alone, a cell whose cleaned text is a
\* decimal or exponential number (the numeric candidate parses) yields that
\* number, every other cell yields the cleaned string.
C10_NumericCandidateYieldsNumber ==
  numbersOnly
    => \A c \in numberCells :
         LET value == cellValue(a[c[1]], c[2])
         IN  returnedCell(c[1], c[2]) =
               IF value # <<>> /\ ~isNaN(toNumber(value)) THEN toNumber(value) ELSE Str(value)

allDigits(t) == Len(t) > 0 /\ \A i \in DOMAIN t : IsDigit(t[i])

\* the ways to cut an unsigned text into the integer part, the fraction and
\* the exponent of a number in JSON syntax: <<i, j>> cuts after i and after j
jsonCuts(u) ==
  {cut \in (0..Len(u)) \X (0..Len(u)) :
     /\ cut[1] <= cut[2]
     /\ LET int == SubSeq(u, 1, cut[1])
            frac == SubSeq(u, cut[1] + 1, cut[2])
            exp == SubSeq(u, cut[2] + 1, Len(u))
        IN  /\ allDigits(int) /\ (Len(int) > 1 => int[1] # "0")
            /\ frac = <<>> \/ (frac[1] = "." /\ allDigits(Tail(frac)))
            /\ \/ exp = <<>>
               \/ /\ exp[1] \in {"e", "E"}
                  /\ \/ allDigits(Tail(exp))
                     \/ Len(exp) > 2 /\ exp[2] \in {"+", "-"} /\ allDigits(SubSeq(exp, 3, Len(exp)))}

unsignedPart(s) == IF Len(s) > 0 /\ s[1] = "-" THEN Tail(s) ELSE s

isJsonNumber(s) == jsonCuts(unsignedPart(s)) # {}

\* the number a text in JSON syntax denotes
jsonNumber(s) ==
  LET u == unsignedPart(s)
      cut == CHOOSE cut \in jsonCuts(u) : TRUE
      int == SubSeq(u, 1, cut[1])
      frac == SubSeq(u, cut[1] + 2, cut[2])
      exp == SubSeq(u, cut[2] + 2, Len(u))
      expDigits == IF Len(exp) > 0 /\ exp[1] \in {"+", "-"} THEN Tail(exp) ELSE exp
      expValue == IF Len(exp) > 0 /\ exp[1] = "-" THEN 0 - digitsValue(expDigits)
                  ELSE digitsValue(expDigits)
      magnitude == digitsValue(int \o frac)
  IN  normalize(IF u # s THEN 0 - magnitude ELSE magnitude, expValue - Len(frac))

\* C10 amended: with parseNumbers alone, a cell whose cleaned text is a
\* number in JSON syntax (an optional '-', an integer part without a
\* leading zero, an optional '.' with digits, an optional exponent) yields
\* that number, 42 yields 42; every other cell, the empty one and those
\* like +4, .4, 4. and 04 included, yields the cleaned string, 42a yields "42a".
C10_JsonNumberYieldsNumber ==
  numbersOnly
    => /\ \A c \in numberCells :
            LET value == cellValue(a[c[1]], c[2])
            IN  returnedCell(c[1], c[2]) =
                  IF isJsonNumber(value) THEN jsonNumber(value) ELSE Str(value)
       /\ \A r \in DOMAIN a :
            /\ (Len(keys) = 2 /\ keys[1] # keys[2] /\ a[r][1] = <<"4", "2">>)
                 => output[r][keys[1]] = [type |-> "number", nan |-> FALSE, m |-> 42, e |-> 0]
            /\ (Len(keys) = 2 /\ keys[1] # keys[2] /\ a[r][1] = <<"4", "2", "a">>)
                 => output[r][keys[1]] = Str(<<"4", "2", "a">>)

\* a row with a number in exponential form and an empty cell was mapped
C10_Witness ==
  /\ numbersOnly
  /\ Len(a) = 1
  /\ a[1] = <<<<"4", "e", "4">>, <<>>>>
  /\ output[1][keys[1]] = [type |-> "number", nan |-> FALSE, m |-> 4, e |-> 4]
  /\ output[1][keys[2]] = Str(<<>>)

(***************************************************************************)
(* Line breaks around and between lines.                                   *)
(***************************************************************************)
\* the pieces of s between its elements of seps, empty pieces kept
RECURSIVE pieces(_, _)
pieces(s, seps) ==
  IF \A i \in DOMAIN s : s[i] \notin seps THEN <<s>>
  ELSE LET i == CHOOSE k \in DOMAIN s :
                  s[k] \in seps /\ \A j \in 1..(k - 1) : s[j] \notin seps
       IN  <<SubSeq(s, 1, i - 1)>> \o pieces(SubSeq(s, i + 1, Len(s)), seps)

\* the maximal runs of characters of t that are not line breaks
nonBlankLines(t) == SelectSeq(pieces(t, {LF, CR}), LAMBDA line : line # <<>>)

\* one row per non-blank line, its fields the pieces between separators
plainRows(t, sep) ==
  [i \in DOMAIN nonBlankLines(t) |-> pieces(nonBlankLines(t)[i], {sep})]

hasConvention(value) ==
  \E i \in 1..(Len(value) - 1) : value[i] = "_" /\ value[i + 1] = "_"

plainHeader == \A i \in DOMAIN headerValues : ~hasConvention(headerValues[i])

\* C12: for a header none of whose values holds "__", the keys uniquify
\* returned are left as they are by a second uniquify:
\* uniquify(uniquify(header)) = uniquify(header).
C12_UniquifyIdempotent ==
  (pc = "rows" /\ plainHeader)
    => /\ keys = uniquify(headerValues)
       /\ uniquify(keys) = keys

\* uniquify has renamed a repeated value of a header without "__"
C12_Witness ==
  /\ pc = "rows"
  /\ plainHeader
  /\ \E i, j \in DOMAIN headerValues : i < j /\ headerValues[i] = headerValues[j]
  /\ keys # headerValues
  /\ uniquify(keys) = keys

(***************************************************************************)
(* Cleaning of header values and cells.                                    *)
(***************************************************************************)
\* trims, then removes a leading and a trailing quote when both are there
pairClean(s) ==
  LET t == trim(s)
  IN  IF Len(t) >= 2 /\ Head(t) = QUOTE /\ t[Len(t)] = QUOTE
      THEN SubSeq(t, 2, Len(t) - 1)
      ELSE t

\* C13: cleaning trims a value and removes one leading and one trailing
\* double quote only when both are present; a trimmed value with a quote at
\* one end only, such as he said "hi", is left unchanged.  Stated on the
\* keys: they are uniquify of the header values cleaned that way.
C13_StripsQuotePairOnly ==
  pc = "rows" => keys = uniquify([i \in DOMAIN headerRow |-> pairClean(headerRow[i])])

(***************************************************************************)
(* A line that is the empty quoted field.                                  *)
(***************************************************************************)
emptyQuoted == <<QUOTE, QUOTE>>

\* every line of t is the empty quoted field or holds no quote, and one of
\* them is the empty quoted field
hasEmptyQuotedLine(t) ==
  /\ \A i \in DOMAIN nonBlankLines(t) :
        nonBlankLines(t)[i] = emptyQuoted \/ QUOTE \notin Range(nonBlankLines(t)[i])
  /\ \E i \in DOMAIN nonBlankLines(t) : nonBlankLines(t)[i] = emptyQuoted

\* the rows of such a text: one empty field for the empty quoted field
rowsWithEmptyQuoted(t, sep) ==
  [i \in DOMAIN nonBlankLines(t) |->
     IF nonBlankLines(t)[i] = emptyQuoted THEN <<<<>>>>
     ELSE pieces(nonBlankLines(t)[i], {sep})]

\* C14: a line whose only field is the empty quoted field is accepted and
\* gives a row of one empty field; a newline "" newline b parses to three
\* rows, without SyntaxError and without a dropped line.
C14_EmptyQuotedLineAccepted ==
  (pc = "parse_end" /\ hasEmptyQuotedLine(csv))
    => /\ result # Null
       /\ result = rowsWithEmptyQuoted(csv, parserSeparator)
       /\ pos = Len(csv)

(***************************************************************************)
(* Transpose.                                                              *)
(***************************************************************************)
\* the length of the longest row of a table that has a row
longestLength(table) ==
  CHOOSE n \in {Len(table[j]) : j \in DOMAIN table} :
    \A j \in DOMAIN table : Len(table[j]) <= n

\* t is the zip-to-longest pivot of table
isPivot(t, table) ==
  /\ Len(t) = longestLength(table)
  /\ \A i \in DOMAIN t :
        /\ Len(t[i]) = Len(table)
        /\ \A j \in DOMAIN table :
              t[i][j] = IF i <= Len(table[j]) THEN table[j][i] ELSE Undefined

\* C15: with transpose set, the table handed to the Header Processor, or
\* returned when returnArray is set, is the zip-to-longest pivot of the
\* parsed table: as many rows as the longest parsed row has fields, one cell
\* per parsed row in each, cell j of row i being element i of parsed row j
\* or the missing-cell marker; a ragged table is never rejected, the only
\* errors are those raised before the pivot.
C15_TransposePivots ==
  /\ (options.transpose /\ pc = "header") => isPivot(a, result)
  /\ (options.transpose /\ options.returnArray /\ pc = "returned")
       => isPivot(output, result)
  /\ (options.transpose /\ pc = "thrown")
       => (error.name = "SyntaxError" \/ error = Thrown(errorEmpty))

\* a ragged table has been pivoted: the pivot holds a missing-cell marker
C15_Witness ==
  /\ options.transpose
  /\ pc = "header"
  /\ \E j, k \in DOMAIN result : Len(result[j]) < Len(result[k])
  /\ \E i \in DOMAIN a : Undefined \in Range(a[i])

(***************************************************************************)
(* Furthest-failure tracking.                                              *)
(***************************************************************************)
isPrefix(s, t) == Len(s) <= Len(t) /\ SubSeq(t, 1, Len(s)) = s

\* what a step of the running parse may do to the furthest failure: the
\* failures of one step are recorded with the cursor at pos or at pos + 1,
\* at most two of them
failureStep ==
  parsing
    => /\ rightmostFailuresPos' >= rightmostFailuresPos
       /\ rightmostFailuresPos' = rightmostFailuresPos
            => isPrefix(rightmostFailuresExpected, rightmostFailuresExpected')
       /\ rightmostFailuresPos' > rightmostFailuresPos
            => /\ rightmostFailuresPos' \in {pos, pos + 1}
               /\ Len(rightmostFailuresExpected') \in {1, 2}
       /\ pos + 1 < rightmostFailuresPos
            => UNCHANGED <<rightmostFailuresPos, rightmostFailuresExpected>>
       /\ pos' < pos
            => /\ rightmostFailuresPos' >= rightmostFailuresPos
               /\ isPrefix(rightmostFailuresExpected, rightmostFailuresExpected')

\* what the SyntaxError reports
failureReported ==
  (pc = "thrown" /\ error.name = "SyntaxError")
    => /\ error.offset = Max(pos, rightmostFailuresPos)
       /\ error.expected = Range(rightmostFailuresExpected)
       /\ csv = EmptyQuotedExample
            => (pos = 2 /\ error.offset = 4 /\ error.expected = {ExpectedQuote})

\* C16: during one parse the furthest-failure position never decreases,
\* also when an alternative backtracks; the expectations are cleared when a
\* failure happens at a strictly greater position, accumulated at an equal
\* one and left alone at a smaller one; the SyntaxError reports the maximum
\* of the final cursor and the furthest-failure position, with the
\* expectations recorded there (a newline "" newline b: cursor 2, offset 4,
\* the closing quote expected).
C16_FurthestFailureTracked == [][failureStep]_vars /\ []failureReported

\* a parse has failed with the furthest failure beyond the final cursor,
\* recorded in an alternative that was abandoned
C16_Witness ==
  /\ pc = "thrown"
  /\ error.name = "SyntaxError"
  /\ pos < rightmostFailuresPos
  /\ error.offset = rightmostFailuresPos
  /\ Len(rightmostFailuresExpected) > 1

(***************************************************************************)
(* The table the Header Processor receives.                                *)
(***************************************************************************)
ragged(table) == \E j, k \in DOMAIN table : Len(table[j]) < Len(table[k])

\* C17: the table that reaches the Header Processor has a row 0, each of
\* its rows has at least one field, and no cell of row 0 is the
\* missing-cell marker, also when a ragged table was transposed; convert
\* never throws the empty-header error and never fails in the cleaning of
\* the header.
C17_HeaderRowDefined ==
  /\ pc = "header"
       => /\ Len(a) >= 1
          /\ \A r \in DOMAIN a : Len(a[r]) >= 1
          /\ Undefined \notin Range(a[1])
  /\ error # Thrown(errorEmptyHeader)
  /\ error.name # "TypeError"

\* the header of a transposed ragged table has been processed
C17_Witness ==
  /\ pc = "rows"
  /\ options.transpose
  /\ ragged(result)
  /\ Len(keys) = Len(result)
  /\ \E r \in DOMAIN a : Undefined \in Range(a[r])

(***************************************************************************)
(* Termination of csvParser.parse.                                         *)
(***************************************************************************)
\* a step of the parser: an iteration that repeats (the position in the
\* code stays the same, or parse_line takes its next field) advances the
\* cursor; the repetition of parse_sv calls parse_line only behind a line
\* break; an alternative that fails puts the cursor back
cursorStep ==
  parsing
    => /\ pc' = pc => pos' > pos
       /\ (pc = "line_sep" /\ pc' = "field") => pos' = pos + 1
       /\ (pc = "sv_rest" /\ pc' = "field") => pos > svPos2
       /\ (pc = "close" /\ pc' = "unquoted") => pos' = fieldPos0
       /\ (pc = "line_end" /\ pc' = "parse_end") => pos' = 0
       /\ (pc = "line_end" /\ pc' = "sv_trail") => (pos' = svPos2 /\ pos' <= linePos0)
       /\ pos' < pos => pc \in {"close", "line_end"}

\* how csvParser.parse ends
parseEnded ==
  /\ pc = "transpose" => (pos = Len(csv) /\ Len(rows) >= 1 /\ result = rows /\ a = rows)
  /\ (pc = "thrown" /\ parserSeparator # "") => error.name = "SyntaxError"

\* C18: csvParser.parse terminates on every text and every start rule:
\* every iteration of the loops of parse_sv, parse_line and parse_field
\* advances the cursor by at least one character, a failed alternative
\* puts the cursor back to where its rule was entered, and a parse that has
\* started ends, with the cursor at the end of the input or with
\* SyntaxError.
C18_ParseTerminates ==
  /\ [][cursorStep]_vars
  /\ []parseEnded
  /\ (pc = "parse") ~> (pc \in {"transpose", "thrown"})

\* a parse that looped and backtracked has ended
C18_Witness ==
  /\ pc \in {"transpose", "thrown"}
  /\ parserSeparator # ""
  /\ unterminated
  /\ Len(csv) >= MaxLen

====
